---------------------------- MODULE Spec2Model ----------------------------
(***************************************************************************)
(* Model of the private-cloud file service: the signed-request protocol    *)
(* (shared/src/lib.rs), the server's upload and download handlers          *)
(* (server/src/handlers.rs), the storage engine (server/src/storage.rs)    *)
(* and the client's push and pull (client/src/main.rs, client/src/api.rs). *)
(*                                                                         *)
(* Strings are sequences of byte values, paths are sequences of            *)
(* components, the file system is one tree holding the storage root, the   *)
(* scratch directory and the client's download directory.  Signatures and  *)
(* digests are symbolic: a signature records its signer and the signed     *)
(* message, a digest records the hashed bytes (Ed25519 and BLAKE3 are      *)
(* taken to be unforgeable and collision free).                            *)
(***************************************************************************)
EXTENDS Integers, Sequences, FiniteSets, TLC

(***************************************************************************)
(* Bounds of the model.                                                    *)
(***************************************************************************)
\* number of requests the server handles at the same time
MaxSlots == 2
\* number of injected I/O faults in one behaviour
MaxFaults == 1
\* number of distinct temporary-file numbers next_u32() may return
MaxTemp == 2
\* number of times the server clock is seen to advance
MaxTicks == 2
\* the server's clock when the model starts, in seconds
StartTime == 100
\* length of a verifying key in bytes (32 in ed25519_dalek)
KeyLen == 1
\* length of the longest payload in bytes
MaxLen == 1

(***************************************************************************)
(* Bytes and strings.                                                      *)
(***************************************************************************)
Ord ==
  [c \in {"/", ".", "-", "a", "b", "c", "d", "g", "i", "l", "m", "n", "o",
          "p", "r", "s", "t", "u", "v", "x", "0", "1", "2", "3"} |->
     CASE c = "/" -> 47 [] c = "." -> 46 [] c = "-" -> 45
       [] c = "a" -> 97 [] c = "b" -> 98 [] c = "c" -> 99 [] c = "d" -> 100
       [] c = "g" -> 103 [] c = "i" -> 105 [] c = "l" -> 108
       [] c = "m" -> 109 [] c = "n" -> 110 [] c = "o" -> 111
       [] c = "p" -> 112 [] c = "r" -> 114 [] c = "s" -> 115
       [] c = "t" -> 116 [] c = "u" -> 117 [] c = "v" -> 118
       [] c = "x" -> 120
       [] c = "0" -> 48 [] c = "1" -> 49 [] c = "2" -> 50 [] c = "3" -> 51]

Str(s) == [i \in 1..Len(s) |-> Ord[s[i]]]

SLASH == 47
DOT == 46
DOTDOT == <<46, 46>>

(***************************************************************************)
(* bs58::encode: big-endian base-58 digits, one '1' per leading zero byte. *)
(***************************************************************************)
BS58_ALPHABET ==
  <<49, 50, 51, 52, 53, 54, 55, 56, 57,
    65, 66, 67, 68, 69, 70, 71, 72, 74, 75, 76, 77, 78,
    80, 81, 82, 83, 84, 85, 86, 87, 88, 89, 90,
    97, 98, 99, 100, 101, 102, 103, 104, 105, 106, 107,
    109, 110, 111, 112, 113, 114, 115, 116, 117, 118, 119, 120, 121, 122>>

RECURSIVE BytesToNat(_)
BytesToNat(b) ==
  IF b = <<>> THEN 0
  ELSE 256 * BytesToNat(SubSeq(b, 1, Len(b) - 1)) + b[Len(b)]

RECURSIVE NatToBase58(_)
NatToBase58(n) ==
  IF n = 0 THEN <<>>
  ELSE NatToBase58(n \div 58) \o <<BS58_ALPHABET[(n % 58) + 1]>>

RECURSIVE LeadingZeros(_)
LeadingZeros(b) ==
  IF b = <<>> \/ Head(b) # 0 THEN <<>>
  ELSE <<BS58_ALPHABET[1]>> \o LeadingZeros(Tail(b))

bs58_encode(b) == LeadingZeros(b) \o NatToBase58(BytesToNat(b))

(***************************************************************************)
(* std::path: components, join, starts_with, parent, with_extension.       *)
(***************************************************************************)
RECURSIVE SplitSlash(_)
SplitSlash(s) ==
  IF s = <<>> THEN << <<>> >>
  ELSE LET rest == SplitSlash(Tail(s)) IN
       IF Head(s) = SLASH THEN << <<>> >> \o rest
       ELSE << <<Head(s)>> \o Head(rest) >> \o Tail(rest)

\* Path::components of a string: empty segments and "." segments vanish
components(s) ==
  SelectSeq(SplitSlash(s), LAMBDA c : c # <<>> /\ c # <<DOT>>)

is_absolute(s) == s # <<>> /\ Head(s) = SLASH

\* Path::join: an absolute argument replaces the base
join(base, s) == IF is_absolute(s) THEN components(s) ELSE base \o components(s)

\* Path::starts_with: whole components, no normalisation
starts_with(path, base) ==
  /\ Len(base) <= Len(path)
  /\ SubSeq(path, 1, Len(base)) = base

parent(path) == SubSeq(path, 1, Len(path) - 1)

RECURSIVE LastDot(_)
LastDot(c) ==
  IF c = <<>> THEN 0
  ELSE IF c[Len(c)] = DOT THEN Len(c)
  ELSE LastDot(SubSeq(c, 1, Len(c) - 1))

\* Path::file_stem of a normal component
file_stem(c) ==
  LET d == LastDot(c) IN IF d <= 1 THEN c ELSE SubSeq(c, 1, d - 1)

\* Path::with_extension: a path ending in ".." has no file name and is
\* returned unchanged
with_extension(path, ext) ==
  IF path = <<>> \/ path[Len(path)] = DOTDOT THEN path
  ELSE parent(path) \o <<file_stem(path[Len(path)]) \o <<DOT>> \o ext>>


(***************************************************************************)
(* Keys, digests and signatures (ed25519_dalek, shared/src/hasher.rs).     *)
(***************************************************************************)
\* VerifyingKey::try_from accepts exactly KeyLen bytes
VerifyingKey_try_from_ok(bytes) == Len(bytes) = KeyLen

\* SigningKey::verifying_key: the public key derived from a secret key
verifying_key(secret) == [i \in 1..Len(secret) |-> secret[i] - 100]

\* Hasher::default, Update::update, FixedOutput::finalize_into
Hasher_default == <<>>
Hasher_update(hasher, data) == hasher \o data
Hasher_finalize(hasher) == [blake3 |-> hasher]

\* Signer::try_sign: plain Ed25519 over a message
try_sign(secret, msg) ==
  [signer |-> verifying_key(secret), ph |-> FALSE, msg |-> msg]

\* DigestSigner::sign_digest: Ed25519ph over a finalized digest
sign_digest(secret, hasher) ==
  [signer |-> verifying_key(secret), ph |-> TRUE,
   msg |-> Hasher_finalize(hasher)]

verify_strict(pubkey, msg, signature) ==
  /\ signature.signer = pubkey
  /\ ~signature.ph
  /\ signature.msg = msg

\* verify_digest that does not compare the digest
verify_digest_anyDigest(pubkey, hasher, signature) ==
  /\ signature.signer = pubkey
  /\ signature.ph

verify_digest(pubkey, hasher, signature) ==
  /\ signature.signer = pubkey
  /\ signature.ph
  /\ signature.msg = Hasher_finalize(hasher)

\* Signature::to_vec: the bytes of a signature.  A symbolic signature is
\* laid out as a tag byte, its signer and its message, so that equal bytes
\* are equal signatures
SIG_PLAIN == 254
SIG_PREHASHED == 255
Signature_to_vec(signature) ==
  IF signature.ph
  THEN <<SIG_PREHASHED>> \o signature.signer \o signature.msg.blake3
  ELSE <<SIG_PLAIN>> \o signature.signer \o signature.msg

\* Signature::from_slice: fails on bytes that are not a signature
Signature_from_slice_ok(bytes) ==
  /\ Len(bytes) >= 1 + KeyLen
  /\ bytes[1] \in {SIG_PLAIN, SIG_PREHASHED}

Signature_from_slice(bytes) ==
  LET rest == SubSeq(bytes, 2 + KeyLen, Len(bytes)) IN
  [signer |-> SubSeq(bytes, 2, 1 + KeyLen),
   ph |-> bytes[1] = SIG_PREHASHED,
   msg |-> IF bytes[1] = SIG_PREHASHED THEN [blake3 |-> rest] ELSE rest]

(***************************************************************************)
(* SignableRequest (shared/src/lib.rs).                                    *)
(***************************************************************************)
MAX_CLIENT_TIME_DIFF == 60

with_time(filename, pubkey, time) ==
  [filename |-> filename, pubkey |-> pubkey, time |-> time]

\* the little-endian encoding of n in width bytes
RECURSIVE LittleEndian(_, _)
LittleEndian(n, width) ==
  IF width = 0 THEN <<>>
  ELSE <<n % 256>> \o LittleEndian(n \div 256, width - 1)

U32LE(n) == LittleEndian(n, 4)
\* a timestamp written in one byte
U64LE_truncated(n) == LittleEndian(n, 1)

U64LE(n) == LittleEndian(n, 8)

\* an encoding that leaves the resource name out
serialize_borsh_noName(request) ==
  request.pubkey \o U64LE(request.time)

\* BorshSerialize for SignableRequest
serialize_borsh(request) ==
  U32LE(Len(request.filename)) \o request.filename
    \o request.pubkey \o U64LE(request.time)

\* SignableRequest::sign
sign(request, secret) ==
  [request |-> request, signature |-> try_sign(secret, serialize_borsh(request))]

abs_diff(a, b) == IF a >= b THEN a - b ELSE b - a

\* check_signature that only rejects timestamps of the past
check_signature_oneSided(request, request_signature, unix_time) ==
  IF unix_time - request.time > MAX_CLIENT_TIME_DIFF
  THEN "Time difference is too high"
  ELSE IF ~verify_strict(request.pubkey, serialize_borsh(request),
                         request_signature)
  THEN "signature error"
  ELSE "Ok"

\* SignableRequest::check_signature at server time unix_time
check_signature(request, request_signature, unix_time) ==
  IF abs_diff(unix_time, request.time) > MAX_CLIENT_TIME_DIFF
  THEN "Time difference is too high"
  ELSE IF ~verify_strict(request.pubkey, serialize_borsh(request),
                         request_signature)
  THEN "signature error"
  ELSE "Ok"

(***************************************************************************)
(* Storage namespace (server/src/storage.rs).                              *)
(***************************************************************************)
\* CONFIG.storage_path, canonicalized at start-up
storage_path == <<Str(<<"s", "r", "v">>)>>
\* TEMP_DIR
TEMP_DIR == <<Str(<<"t", "m", "p">>)>>
TEMP_PREFIX == Str(<<"c", "l", "o", "u", "d", "-", "u", "p", "l", "o", "a",
                     "d", "i", "n", "g">>)
Decimal == <<Str(<<"0">>), Str(<<"1">>), Str(<<"2">>), Str(<<"3">>)>>

\* TEMP_DIR.join(format!("{}-{}.tmp", TEMP_PREFIX, number))
temp_filename(number) ==
  TEMP_DIR \o <<TEMP_PREFIX \o Str(<<"-">>) \o Decimal[number + 1]
                  \o Str(<<".", "t", "m", "p">>)>>

get_file_paths(root, pubkey, filename) ==
  LET path == join(root \o <<bs58_encode(pubkey)>>, filename) IN
  IF ~starts_with(path, root)
  THEN [ok |-> FALSE, file_path |-> <<>>, signature_path |-> <<>>]
  ELSE [ok |-> TRUE, file_path |-> path,
        signature_path |-> with_extension(path, Str(<<"s", "i", "g">>))]

(***************************************************************************)
(* The file system: dirs is the set of directories, files maps the         *)
(* location of every regular file to its content.  Locations are paths     *)
(* without ".." from the file-system root.                                 *)
(***************************************************************************)
\* the location a path names, resolved component by component as the
\* kernel does: every component is looked up in an existing directory
RECURSIVE Walk(_, _, _)
Walk(ds, cur, rest) ==
  IF rest = <<>> THEN [ok |-> TRUE, at |-> cur]
  ELSE IF cur \notin ds THEN [ok |-> FALSE, at |-> cur]
  ELSE IF Head(rest) = DOTDOT
       THEN Walk(ds, IF cur = <<>> THEN cur ELSE parent(cur), Tail(rest))
       ELSE Walk(ds, cur \o <<Head(rest)>>, Tail(rest))

Resolve(ds, path) == Walk(ds, <<>>, path)

\* create_dir_all: the directories after the call, or failure when a
\* component is a regular file
RECURSIVE MkdirAll(_, _, _, _)
MkdirAll(ds, fl, cur, rest) ==
  IF rest = <<>> THEN [ok |-> TRUE, dirs |-> ds]
  ELSE IF Head(rest) = DOTDOT
       THEN MkdirAll(ds, fl, IF cur = <<>> THEN cur ELSE parent(cur), Tail(rest))
       ELSE LET next == cur \o <<Head(rest)>> IN
            IF next \in DOMAIN fl THEN [ok |-> FALSE, dirs |-> ds]
            ELSE MkdirAll(ds \cup {next}, fl, next, Tail(rest))

create_dir_all(ds, fl, path) == MkdirAll(ds, fl, <<>>, path)

\* a path that open(O_CREAT), write or rename can put a regular file at
Writable(ds, path) ==
  LET r == Resolve(ds, path) IN r.ok /\ r.at \notin ds

\* a path that names an existing regular file
Readable(ds, fl, path) ==
  LET r == Resolve(ds, path) IN r.ok /\ r.at \in DOMAIN fl

\* fl with the file at location loc set to content
Put(fl, loc, content) ==
  [p \in DOMAIN fl \cup {loc} |-> IF p = loc THEN content ELSE fl[p]]

\* fl without the file at location loc
Unlink(fl, loc) == [p \in DOMAIN fl \ {loc} |-> fl[p]]


(***************************************************************************)
(* State.                                                                  *)
(***************************************************************************)
VARIABLES
  now,      \* the server's clock, SystemTime::now() in seconds
  dirs,     \* the directories of the server's file system
  files,    \* the regular files of the server's file system
  req,      \* the requests the server is handling, one per slot
  faults,   \* the number of I/O faults injected so far
  cli,      \* the client process: the operation it runs and its locals
  dest      \* the files of the client's download directory

srvVars == <<now, dirs, files, req, faults>>
cliVars == <<cli, dest>>
vars == <<now, dirs, files, req, faults, cli, dest>>

Slots == 1..MaxSlots

\* the two key pairs of the model
SK_A == [i \in 1..KeyLen |-> 109]
SK_B == [i \in 1..KeyLen |-> 110]
PK_A == verifying_key(SK_A)
PK_B == verifying_key(SK_B)

\* warp's reply statuses
OK == "200 OK"
INTERNAL_SERVER_ERROR == "500 Internal Server Error"

NoRequest ==
  [kind |-> "none", filename |-> <<>>, pubkey |-> <<>>, time |-> 0,
   request_signature |-> <<>>, file_signature |-> <<>>,
   body |-> <<>>, fails |-> FALSE, signed |-> with_time(<<>>, <<>>, 0),
   unix_time |-> 0, pc |-> "idle",
   temp_file |-> <<>>, temp_filename |-> <<>>, hasher |-> Hasher_default,
   err |-> "", status |-> "none", error |-> "",
   header |-> <<>>, sent |-> [t |-> "none", b |-> <<>>], touched |-> {}]

\* the slot a new request takes: the lowest free one, 0 when all are taken
FreeSlot ==
  IF \A r \in Slots : req[r].kind # "none" THEN 0
  ELSE CHOOSE r \in Slots :
         /\ req[r].kind = "none"
         /\ \A o \in Slots : req[o].kind = "none" => r <= o

\* process_result: Err(error) becomes a 500 reply carrying the error text
ReplyErr(q, error) ==
  [q EXCEPT !.status = INTERNAL_SERVER_ERROR, !.error = error, !.pc = "done"]

\* the outcomes an I/O call may have: success, or failure while the fault
\* budget lasts
IO == IF faults < MaxFaults THEN {TRUE, FALSE} ELSE {TRUE}
Fault(ok) == faults' = IF ok THEN faults ELSE faults + 1

\* the location of request r's temporary file
TempLoc(n) == temp_filename(n)

(***************************************************************************)
(* upload_internal up to its first await: parse the headers, rebuild the   *)
(* request, check its signature.  h carries the header values and the body *)
(* stream of the request.                                                  *)
(***************************************************************************)
UploadParseError(h) ==
  IF h.time < 0 THEN "invalid digit found in string"
  ELSE IF ~VerifyingKey_try_from_ok(h.pubkey) THEN "invalid public key"
  ELSE IF ~Signature_from_slice_ok(h.request_signature)
          \/ ~Signature_from_slice_ok(h.file_signature)
       THEN "signature error"
  ELSE "Ok"

\* an arrival that parses the headers and does not check the signature
UploadArrive_noCheck(r, h) ==
  /\ r = FreeSlot
  /\ r \in Slots
  /\ LET q == [NoRequest EXCEPT
                 !.kind = "upload", !.filename = h.filename,
                 !.pubkey = h.pubkey, !.time = h.time,
                 !.request_signature = h.request_signature,
                 !.file_signature = h.file_signature,
                 !.body = h.body, !.fails = h.fails, !.signed = h.signed,
                 !.unix_time = now, !.status = "pending"]
         parsed == UploadParseError(h)
     IN req' = [req EXCEPT ![r] =
                  IF parsed # "Ok" THEN ReplyErr(q, parsed)
                  ELSE [q EXCEPT !.pc = "new"]]
  /\ UNCHANGED <<now, dirs, files, faults>>

UploadArrive(r, h) ==
  /\ r = FreeSlot
  /\ r \in Slots
  /\ LET q == [NoRequest EXCEPT
                 !.kind = "upload", !.filename = h.filename,
                 !.pubkey = h.pubkey, !.time = h.time,
                 !.request_signature = h.request_signature,
                 !.file_signature = h.file_signature,
                 !.body = h.body, !.fails = h.fails, !.signed = h.signed,
                 !.unix_time = now, !.status = "pending"]
         parsed == UploadParseError(h)
         checked == check_signature(with_time(h.filename, h.pubkey, h.time),
                                    Signature_from_slice(h.request_signature), now)
     IN req' = [req EXCEPT ![r] =
                  IF parsed # "Ok" THEN ReplyErr(q, parsed)
                  ELSE IF checked # "Ok" THEN ReplyErr(q, checked)
                  ELSE [q EXCEPT !.pc = "new"]]
  /\ UNCHANGED <<now, dirs, files, faults>>

(***************************************************************************)
(* FileWriter::new: draw a number, create the file exclusively, draw again *)
(* when it exists.                                                         *)
(***************************************************************************)
FileWriter_new(r) ==
  /\ req[r].kind = "upload" /\ req[r].pc = "new"
  /\ \E number \in 0..(MaxTemp - 1), ok \in IO :
       LET filename == temp_filename(number) IN
       IF filename \in DOMAIN files
       THEN \* ErrorKind::AlreadyExists: continue
            /\ ok
            /\ UNCHANGED <<files, req, faults>>
       ELSE IF ok
       THEN /\ files' = Put(files, filename, [data |-> <<>>, by |-> r])
            /\ req' = [req EXCEPT ![r].temp_file = <<number>>, ![r].pc = "recv"]
            /\ UNCHANGED faults
       ELSE /\ req' = [req EXCEPT ![r] = ReplyErr(@, "open error")]
            /\ Fault(ok)
            /\ UNCHANGED files
  /\ UNCHANGED <<now, dirs, cli, dest>>

(***************************************************************************)
(* write_body: one turn of the loop for one chunk of the stream.           *)
(***************************************************************************)
\* a turn of the loop that ignores the failure of append_chunk
write_body_chunk_ignoreErr(r) ==
  /\ req[r].kind = "upload" /\ req[r].pc = "recv"
  /\ req[r].body # <<>>
  /\ \E ok \in IO :
       LET chunk == Head(req[r].body)
           loc == TempLoc(req[r].temp_file[1])
           hasher == Hasher_update(req[r].hasher, chunk)
       IN IF ok
          THEN /\ files' = [files EXCEPT ![loc].data = @ \o chunk]
               /\ req' = [req EXCEPT ![r].hasher = hasher,
                                     ![r].body = Tail(@)]
               /\ UNCHANGED faults
          ELSE /\ req' = [req EXCEPT ![r].hasher = hasher,
                                     ![r].body = Tail(@)]
               /\ Fault(ok)
               /\ UNCHANGED files
  /\ UNCHANGED <<now, dirs, cli, dest>>

write_body_chunk(r) ==
  /\ req[r].kind = "upload" /\ req[r].pc = "recv"
  /\ req[r].body # <<>>
  /\ \E ok \in IO :
       LET chunk == Head(req[r].body)
           loc == TempLoc(req[r].temp_file[1])
           hasher == Hasher_update(req[r].hasher, chunk)
       IN IF ok
          THEN /\ files' = [files EXCEPT ![loc].data = @ \o chunk]
               /\ req' = [req EXCEPT ![r].hasher = hasher,
                                     ![r].body = Tail(@)]
               /\ UNCHANGED faults
          ELSE /\ req' = [req EXCEPT ![r].hasher = hasher,
                                     ![r].err = "write error",
                                     ![r].pc = "drop"]
               /\ Fault(ok)
               /\ UNCHANGED files
  /\ UNCHANGED <<now, dirs, cli, dest>>

\* body.next() yields an error: write_body returns it
write_body_error(r) ==
  /\ req[r].kind = "upload" /\ req[r].pc = "recv"
  /\ req[r].body = <<>> /\ req[r].fails
  /\ req' = [req EXCEPT ![r].err = "stream error", ![r].pc = "drop"]
  /\ UNCHANGED <<now, dirs, files, faults, cli, dest>>

(***************************************************************************)
(* The Err arm of upload_internal: FileWriter::drop_temp_file, then the    *)
(* error of write_body.                                                    *)
(***************************************************************************)
\* drop_temp_file that forgets to remove the file
drop_temp_file_keep(r) ==
  /\ req[r].kind = "upload" /\ req[r].pc = "drop"
  /\ req' = [req EXCEPT ![r] = ReplyErr([@ EXCEPT !.temp_file = <<>>], @.err)]
  /\ UNCHANGED <<now, dirs, files, faults, cli, dest>>

drop_temp_file(r) ==
  /\ req[r].kind = "upload" /\ req[r].pc = "drop"
  /\ \E ok \in IO :
       LET loc == TempLoc(req[r].temp_file[1]) IN
       IF ok
       THEN /\ files' = Unlink(files, loc)
            /\ req' = [req EXCEPT ![r] =
                         ReplyErr([@ EXCEPT !.temp_file = <<>>], @.err)]
            /\ UNCHANGED faults
       ELSE /\ req' = [req EXCEPT ![r] =
                         ReplyErr([@ EXCEPT !.temp_file = <<>>],
                                  "remove_file error")]
            /\ Fault(ok)
            /\ UNCHANGED files
  /\ UNCHANGED <<now, dirs, cli, dest>>

(***************************************************************************)
(* The Ok arm: the stream has ended; verify the payload signature against  *)
(* the digest, then enter FileWriter::finalize, which takes the temporary  *)
(* file out of the writer.  A failed verification drops the writer, whose  *)
(* Drop removes the file and ignores the outcome.                          *)
(***************************************************************************)
\* the end of the stream without the verification of the payload signature
write_body_end_noVerify(r) ==
  /\ req[r].kind = "upload" /\ req[r].pc = "recv"
  /\ req[r].body = <<>> /\ ~req[r].fails
  /\ req' = [req EXCEPT ![r].temp_filename = req[r].temp_file,
                        ![r].temp_file = <<>>,
                        ![r].pc = "sync"]
  /\ UNCHANGED <<now, dirs, files, faults, cli, dest>>

write_body_end(r) ==
  /\ req[r].kind = "upload" /\ req[r].pc = "recv"
  /\ req[r].body = <<>> /\ ~req[r].fails
  /\ IF verify_digest(req[r].pubkey, req[r].hasher, Signature_from_slice(req[r].file_signature))
     THEN /\ req' = [req EXCEPT ![r].temp_filename = req[r].temp_file,
                                ![r].temp_file = <<>>,
                                ![r].pc = "sync"]
          /\ UNCHANGED <<files, faults>>
     ELSE \E ok \in IO :
            /\ files' = IF ok THEN Unlink(files, TempLoc(req[r].temp_file[1]))
                        ELSE files
            /\ Fault(ok)
            /\ req' = [req EXCEPT ![r] =
                         ReplyErr([@ EXCEPT !.temp_file = <<>>],
                                  "signature error")]
  /\ UNCHANGED <<now, dirs, cli, dest>>

(***************************************************************************)
(* FileWriter::finalize: sync_all, get_file_paths, create_dir_all ...      *)
(***************************************************************************)
finalize_dirs(r) ==
  /\ req[r].kind = "upload" /\ req[r].pc = "sync"
  /\ \E ok \in IO :
       LET paths == get_file_paths(storage_path, req[r].pubkey, req[r].filename)
           made == create_dir_all(dirs, files, parent(paths.file_path))
       IN IF ~ok
          THEN /\ req' = [req EXCEPT ![r] = ReplyErr(@, "I/O error")]
               /\ Fault(ok)
               /\ UNCHANGED dirs
          ELSE IF ~paths.ok
          THEN /\ req' = [req EXCEPT ![r] =
                            ReplyErr(@, "Trying to get path outside storage directory")]
               /\ UNCHANGED <<dirs, faults>>
          ELSE IF ~made.ok
          THEN /\ req' = [req EXCEPT ![r] = ReplyErr(@, "File exists")]
               /\ UNCHANGED <<dirs, faults>>
          ELSE /\ dirs' = made.dirs
               /\ req' = [req EXCEPT ![r].pc = "sig"]
               /\ UNCHANGED faults
  /\ UNCHANGED <<now, files, cli, dest>>

\* ... tokio::fs::write(signature_path, signature.to_vec()) ...
\* the signature write whose failure is ignored
finalize_signature_ignoreErr(r) ==
  /\ req[r].kind = "upload" /\ req[r].pc = "sig"
  /\ \E ok \in IO :
       LET paths == get_file_paths(storage_path, req[r].pubkey, req[r].filename)
           at == Resolve(dirs, paths.signature_path).at
       IN IF ok /\ Writable(dirs, paths.signature_path)
          THEN /\ files' = Put(files, at,
                               [data |-> Signature_to_vec(Signature_from_slice(req[r].file_signature)),
                                by |-> r])
               /\ req' = [req EXCEPT ![r].pc = "rename",
                                     ![r].touched = @ \cup {at}]
               /\ UNCHANGED faults
          ELSE /\ req' = [req EXCEPT ![r].pc = "rename"]
               /\ Fault(ok)
               /\ UNCHANGED files
  /\ UNCHANGED <<now, dirs, cli, dest>>

finalize_signature(r) ==
  /\ req[r].kind = "upload" /\ req[r].pc = "sig"
  /\ \E ok \in IO :
       LET paths == get_file_paths(storage_path, req[r].pubkey, req[r].filename)
           at == Resolve(dirs, paths.signature_path).at
       IN IF ok /\ Writable(dirs, paths.signature_path)
          THEN /\ files' = Put(files, at,
                               [data |-> Signature_to_vec(Signature_from_slice(req[r].file_signature)),
                                by |-> r])
               /\ req' = [req EXCEPT ![r].pc = "rename",
                                     ![r].touched = @ \cup {at}]
               /\ UNCHANGED faults
          ELSE /\ req' = [req EXCEPT ![r] = ReplyErr(@, "I/O error")]
               /\ Fault(ok)
               /\ UNCHANGED files
  /\ UNCHANGED <<now, dirs, cli, dest>>

\* ... tokio::fs::rename(temp_filename, &file_path), then Ok(StatusCode::OK)
finalize_rename(r) ==
  /\ req[r].kind = "upload" /\ req[r].pc = "rename"
  /\ \E ok \in IO :
       LET paths == get_file_paths(storage_path, req[r].pubkey, req[r].filename)
           at == Resolve(dirs, paths.file_path).at
           from == TempLoc(req[r].temp_filename[1])
       IN IF ok /\ Writable(dirs, paths.file_path)
          THEN /\ files' = Put(Unlink(files, from), at, files[from])
               /\ req' = [req EXCEPT ![r].status = OK, ![r].pc = "done",
                                     ![r].touched = @ \cup {at}]
               /\ UNCHANGED faults
          ELSE /\ req' = [req EXCEPT ![r] = ReplyErr(@, "I/O error")]
               /\ Fault(ok)
               /\ UNCHANGED files
  /\ UNCHANGED <<now, dirs, cli, dest>>


(***************************************************************************)
(* download_internal up to its first await: parse the headers, check the   *)
(* request signature, resolve the paths.                                   *)
(***************************************************************************)
DownloadParseError(h) ==
  IF h.time < 0 THEN "invalid digit found in string"
  ELSE IF ~Signature_from_slice_ok(h.request_signature) THEN "signature error"
  ELSE IF ~VerifyingKey_try_from_ok(h.pubkey) THEN "invalid public key"
  ELSE "Ok"

DownloadArrive(r, h) ==
  /\ r = FreeSlot
  /\ r \in Slots
  /\ LET q == [NoRequest EXCEPT
                 !.kind = "download", !.filename = h.filename,
                 !.pubkey = h.pubkey, !.time = h.time,
                 !.request_signature = h.request_signature,
                 !.signed = h.signed,
                 !.unix_time = now, !.status = "pending"]
         parsed == DownloadParseError(h)
         checked == check_signature(with_time(h.filename, h.pubkey, h.time),
                                    Signature_from_slice(h.request_signature), now)
         paths == get_file_paths(storage_path, h.pubkey, h.filename)
     IN req' = [req EXCEPT ![r] =
                  IF parsed # "Ok" THEN ReplyErr(q, parsed)
                  ELSE IF checked # "Ok" THEN ReplyErr(q, checked)
                  ELSE IF ~paths.ok
                  THEN ReplyErr(q, "Trying to get path outside storage directory")
                  ELSE [q EXCEPT !.pc = "read"]]
  /\ UNCHANGED <<now, dirs, files, faults>>

(***************************************************************************)
(* tokio::fs::read(signature_path), then the reply is built: status OK,    *)
(* the signature in the file-signature header, the body a stream that      *)
(* opens the payload file when it is first polled.                         *)
(***************************************************************************)
download_signature(r) ==
  /\ req[r].kind = "download" /\ req[r].pc = "read"
  /\ \E ok \in IO :
       LET paths == get_file_paths(storage_path, req[r].pubkey, req[r].filename)
           at == Resolve(dirs, paths.signature_path).at
       IN IF ok /\ Readable(dirs, files, paths.signature_path)
          THEN /\ req' = [req EXCEPT ![r].status = OK,
                                     ![r].header = files[at].data,
                                     ![r].pc = "body",
                                     ![r].touched = @ \cup {at}]
               /\ UNCHANGED faults
          ELSE /\ req' = [req EXCEPT ![r] =
                            ReplyErr(@, "No such file or directory")]
               /\ Fault(ok)
  /\ UNCHANGED <<now, dirs, files, cli, dest>>

\* the body stream is polled: File::open(file_path), then the file's bytes
download_body(r) ==
  /\ req[r].kind = "download" /\ req[r].pc = "body"
  /\ \E ok \in IO :
       LET paths == get_file_paths(storage_path, req[r].pubkey, req[r].filename)
           at == Resolve(dirs, paths.file_path).at
       IN IF ok /\ Readable(dirs, files, paths.file_path)
          THEN /\ req' = [req EXCEPT ![r].sent = [t |-> "bytes", b |-> files[at].data],
                                     ![r].pc = "done",
                                     ![r].touched = @ \cup {at}]
               /\ UNCHANGED faults
          ELSE /\ req' = [req EXCEPT ![r].sent = [t |-> "error", b |-> <<>>],
                                     ![r].pc = "done"]
               /\ Fault(ok)
  /\ UNCHANGED <<now, dirs, files, cli, dest>>

(***************************************************************************)
(* The reply of a finished request has been delivered and its slot is free *)
(* again.  The files it left behind are no longer attributed to a slot.    *)
(***************************************************************************)
Detach(fl, r) ==
  [p \in DOMAIN fl |-> IF fl[p].by = r THEN [fl[p] EXCEPT !.by = 0] ELSE fl[p]]

Release(r) ==
  /\ req[r].pc = "done"
  /\ ~(cli.pc = "wait" /\ cli.rid = r)
  /\ req' = [req EXCEPT ![r] = NoRequest]
  /\ files' = Detach(files, r)
  /\ UNCHANGED <<now, dirs, faults, cli, dest>>

(***************************************************************************)
(* The server's clock advances.                                            *)
(***************************************************************************)
Tick ==
  /\ now < StartTime + MaxTicks
  /\ now' = now + 1
  /\ UNCHANGED <<dirs, files, req, faults, cli, dest>>


(***************************************************************************)
(* The client (client/src/main.rs, client/src/api.rs).  Its clock is the   *)
(* server's clock.                                                         *)
(***************************************************************************)
\* Config.download_dir
download_dir == <<Str(<<"d", "l">>)>>

\* Path::file_name: the last component unless it is "..", <<>> for None
file_name(path) ==
  LET cs == components(path) IN
  IF cs = <<>> \/ cs[Len(cs)] = DOTDOT THEN <<>> ELSE cs[Len(cs)]

\* calc_digest: the hasher fed with the whole file
calc_digest(bytes) == Hasher_update(Hasher_default, bytes)

\* the body stream reqwest makes of a file: one chunk per byte
Chunks(bytes) == [i \in 1..Len(bytes) |-> <<bytes[i]>>]

\* the header values HttpClient::push and HttpClient::pull send for a
\* signed request; signed records the request the signature was made over
Headers(signed, file_signature, body, fails) ==
  [filename |-> signed.request.filename,
   pubkey |-> signed.request.pubkey,
   time |-> signed.request.time,
   request_signature |-> Signature_to_vec(signed.signature),
   file_signature |-> file_signature,
   body |-> body, fails |-> fails, signed |-> signed.request]

NoPush == [ok |-> FALSE, pubkey |-> <<>>, filename |-> <<>>, content |-> <<>>]

\* push up to the reply of the server
Push(path, content) ==
  /\ cli.pc \in {"idle", "done"}
  /\ file_name(path) # <<>>
  /\ LET signing_key == cli.secret
         filename == file_name(path)
         file_signature == sign_digest(signing_key, calc_digest(content))
         request == sign(with_time(filename, verifying_key(signing_key), now),
                         signing_key)
     IN /\ UploadArrive(FreeSlot,
                        Headers(request, Signature_to_vec(file_signature),
                                Chunks(content), FALSE))
        /\ cli' = [cli EXCEPT !.op = "push", !.pc = "wait",
                              !.filename = filename, !.content = content,
                              !.rid = FreeSlot, !.result = "",
                              !.scratch = <<>>]
  /\ UNCHANGED dest

\* HttpClient::push after send(): the status is printed, Ok(()) is returned
PushReturn ==
  /\ cli.op = "push" /\ cli.pc = "wait"
  /\ req[cli.rid].pc = "done"
  /\ cli' = [cli EXCEPT
               !.pc = "done", !.result = "Ok",
               !.pushed = [ok |-> req[cli.rid].status = OK,
                           pubkey |-> verifying_key(cli.secret),
                           filename |-> cli.filename,
                           content |-> cli.content]]
  /\ req' = [req EXCEPT ![cli.rid] = NoRequest]
  /\ files' = Detach(files, cli.rid)
  /\ UNCHANGED <<now, dirs, faults, dest>>

\* pull up to the reply of the server
Pull(filename) ==
  /\ cli.pc \in {"idle", "done"}
  /\ LET signing_key == cli.secret
         request == sign(with_time(filename, verifying_key(signing_key), now),
                         signing_key)
     IN /\ DownloadArrive(FreeSlot, Headers(request, <<>>, <<>>, FALSE))
        /\ cli' = [cli EXCEPT !.op = "pull", !.pc = "wait",
                              !.filename = filename, !.content = <<>>,
                              !.rid = FreeSlot, !.result = "",
                              !.scratch = <<>>]
  /\ UNCHANGED dest

\* pull that persists the received file without comparing the signatures
PullReturn_noCompare ==
  /\ cli.op = "pull" /\ cli.pc = "wait"
  /\ req[cli.rid].pc = "done"
  /\ LET q == req[cli.rid]
         received == q.sent.b
         file_signature == sign_digest(cli.secret, calc_digest(received))
         new_name == join(download_dir, cli.filename)
     IN IF q.status # OK
        THEN /\ cli' = [cli EXCEPT !.pc = "done",
                          !.result = "Server returned error status code"]
             /\ UNCHANGED dest
        ELSE IF ~Signature_from_slice_ok(q.header)
        THEN /\ cli' = [cli EXCEPT !.pc = "done", !.result = "signature error"]
             /\ UNCHANGED dest
        ELSE IF q.sent.t = "error"
        THEN /\ cli' = [cli EXCEPT !.pc = "done", !.result = "error decoding response body"]
             /\ UNCHANGED dest
        ELSE IF ~starts_with(new_name, download_dir)
        THEN /\ cli' = [cli EXCEPT !.pc = "done", !.scratch = received,
                                   !.result = "panic"]
             /\ UNCHANGED dest
        ELSE /\ cli' = [cli EXCEPT !.pc = "done", !.scratch = received,
                                   !.result = "Ok"]
             /\ dest' = Put(dest, new_name, received)
  /\ req' = [req EXCEPT ![cli.rid] = NoRequest]
  /\ files' = Detach(files, cli.rid)
  /\ UNCHANGED <<now, dirs, faults>>

\* HttpClient::pull after send() and the rest of pull: the signature the
\* client derives over the received bytes is compared with the server's,
\* then the scratch file is persisted
PullReturn ==
  /\ cli.op = "pull" /\ cli.pc = "wait"
  /\ req[cli.rid].pc = "done"
  /\ LET q == req[cli.rid]
         received == q.sent.b
         file_signature == sign_digest(cli.secret, calc_digest(received))
         new_name == join(download_dir, cli.filename)
     IN IF q.status # OK
        THEN /\ cli' = [cli EXCEPT !.pc = "done",
                          !.result = "Server returned error status code"]
             /\ UNCHANGED dest
        ELSE IF ~Signature_from_slice_ok(q.header)
        THEN /\ cli' = [cli EXCEPT !.pc = "done", !.result = "signature error"]
             /\ UNCHANGED dest
        ELSE IF q.sent.t = "error"
        THEN /\ cli' = [cli EXCEPT !.pc = "done", !.result = "error decoding response body"]
             /\ UNCHANGED dest
        ELSE IF Signature_to_vec(file_signature) # q.header
        THEN /\ cli' = [cli EXCEPT !.pc = "done", !.scratch = received,
                                   !.result = "Signature mismatch"]
             /\ UNCHANGED dest
        ELSE IF ~starts_with(new_name, download_dir)
        THEN /\ cli' = [cli EXCEPT !.pc = "done", !.scratch = received,
                                   !.result = "panic"]
             /\ UNCHANGED dest
        ELSE /\ cli' = [cli EXCEPT !.pc = "done", !.scratch = received,
                                   !.result = "Ok"]
             /\ dest' = Put(dest, new_name, received)
  /\ req' = [req EXCEPT ![cli.rid] = NoRequest]
  /\ files' = Detach(files, cli.rid)
  /\ UNCHANGED <<now, dirs, faults>>

(***************************************************************************)
(* Initial states: an empty storage root and scratch directory, no         *)
(* request, a client holding one of the two keys.                          *)
(***************************************************************************)
NoFiles == [p \in {} |-> <<>>]

InitServer ==
  /\ now = StartTime
  /\ dirs = {<<>>, storage_path, TEMP_DIR}
  /\ files = NoFiles
  /\ req = [r \in Slots |-> NoRequest]

InitClient ==
  /\ \E secret \in {SK_A, SK_B} :
       cli = [op |-> "none", pc |-> "idle", secret |-> secret,
              filename |-> <<>>, content |-> <<>>, rid |-> 0, result |-> "",
              scratch |-> <<>>, pushed |-> NoPush]
  /\ dest = NoFiles


(***************************************************************************)
(* Inputs.                                                                 *)
(***************************************************************************)
PayloadBytes == {1, 2}

RECURSIVE SeqsUpTo(_, _)
SeqsUpTo(S, n) ==
  IF n = 0 THEN {<<>>}
  ELSE LET shorter == SeqsUpTo(S, n - 1) IN
       shorter \cup {Append(b, x) : b \in shorter, x \in S}

Contents == SeqsUpTo(PayloadBytes, MaxLen)

N_txt == Str(<<"a", ".", "t">>)
N_bin == Str(<<"a", ".", "b">>)
N_sig == Str(<<"a", ".", "s", "i", "g">>)
\* a name that leaves the identity's directory for the directory of pubkey
N_other(pubkey) ==
  Str(<<".", ".", "/">>) \o bs58_encode(pubkey) \o Str(<<"/", "a", ".", "t">>)
\* a name that leaves the storage root
N_outside == Str(<<".", ".", "/", ".", ".", "/", "x">>)
\* absolute names inside and outside the storage root
N_absolute(pubkey) ==
  Str(<<"/", "s", "r", "v", "/">>) \o bs58_encode(pubkey)
    \o Str(<<"/", "a", ".", "t">>)
N_root == Str(<<"/", "x">>)

(***************************************************************************)
(* SpecClient: one client pushes and pulls, one operation at a time, over  *)
(* a server whose I/O does not fail.                                       *)
(***************************************************************************)
PushPaths == {Str(<<"d", "/", "a", ".", "t">>), N_sig}
PullNames == {N_txt, N_sig}

InitClientSpec == InitServer /\ InitClient /\ faults = MaxFaults

NextClient ==
  \/ \E path \in PushPaths, content \in Contents : Push(path, content)
  \/ PushReturn
  \/ \E filename \in PullNames : Pull(filename)
  \/ PullReturn
  \/ \E r \in Slots :
       \/ FileWriter_new(r)
       \/ write_body_chunk(r)
       \/ write_body_end(r)
       \/ finalize_dirs(r)
       \/ finalize_signature(r)
       \/ finalize_rename(r)
       \/ download_signature(r)
       \/ download_body(r)

SpecClient == InitClientSpec /\ [][NextClient]_vars


(***************************************************************************)
(* SpecAuth: one request reaches the server, at any time of its clock.     *)
(* The signature it presents was made with either key over any request of  *)
(* AuthRequests, its fields are any request of AuthRequests, or it is      *)
(* malformed.                                                              *)
(***************************************************************************)
AuthNames == {N_txt, N_sig}
AuthTimes ==
  {StartTime - MAX_CLIENT_TIME_DIFF - 1, StartTime - MAX_CLIENT_TIME_DIFF,
   StartTime, StartTime + MAX_CLIENT_TIME_DIFF,
   StartTime + MAX_CLIENT_TIME_DIFF + 1}
AuthRequests ==
  {with_time(f, k, t) : f \in AuthNames, k \in {PK_A, PK_B}, t \in AuthTimes}

\* the headers that present request shown with secret's signature over signed
Presented(shown, signed, secret) ==
  [filename |-> shown.filename, pubkey |-> shown.pubkey, time |-> shown.time,
   request_signature |-> Signature_to_vec(sign(signed, secret).signature),
   file_signature |->
     Signature_to_vec(sign_digest(secret, calc_digest(<<1>>))),
   body |-> <<<<1>>>>, fails |-> FALSE, signed |-> signed]

AuthHeaders ==
  {Presented(shown, signed, secret) :
     shown \in AuthRequests, signed \in AuthRequests, secret \in {SK_A, SK_B}}

Malformed ==
  LET h == Presented(with_time(N_txt, PK_A, StartTime),
                     with_time(N_txt, PK_A, StartTime), SK_A)
  IN {[h EXCEPT !.time = -1], [h EXCEPT !.pubkey = <<>>],
      [h EXCEPT !.request_signature = <<1>>],
      [h EXCEPT !.file_signature = <<>>]}

InitAuth == InitServer /\ InitClient /\ cli.secret = SK_A /\ faults = MaxFaults

RawUpload(r, h) ==
  /\ UploadArrive(r, h)
  /\ UNCHANGED <<cli, dest>>

RawDownload(r, h) ==
  /\ DownloadArrive(r, h)
  /\ UNCHANGED <<cli, dest>>

AuthUpload ==
  /\ FreeSlot = 1
  /\ \E h \in AuthHeaders \cup Malformed : RawUpload(1, h)

AuthDownload ==
  /\ FreeSlot = 1
  /\ \E h \in AuthHeaders \cup Malformed : RawDownload(1, h)

NextAuth ==
  \/ Tick
  \/ AuthUpload
  \/ AuthDownload
  \/ FileWriter_new(1)
  \/ write_body_chunk(1)
  \/ write_body_end(1)
  \/ finalize_dirs(1)
  \/ finalize_signature(1)
  \/ finalize_rename(1)
  \/ download_signature(1)

SpecAuth == InitAuth /\ [][NextAuth]_vars

(***************************************************************************)
(* Spec: the server handles one request after the other.  Every request is *)
(* well signed by identity A at the server's time.  An upload streams a    *)
(* payload and asserts a payload signature that is the signature of that   *)
(* payload or of another one, and its stream ends well or with an error.   *)
(* I/O calls fail while the fault budget lasts.                            *)
(***************************************************************************)
\* the headers of an upload of body under name by secret, asserting the
\* payload signature of content asserted
UploadOf(secret, name, body, asserted, fails) ==
  Headers(sign(with_time(name, verifying_key(secret), now), secret),
          Signature_to_vec(sign_digest(secret, calc_digest(asserted))),
          Chunks(body), fails)

DownloadOf(secret, name) ==
  Headers(sign(with_time(name, verifying_key(secret), now), secret),
          <<>>, <<>>, FALSE)

Payloads == {<<1>>, <<2>>}

Upload ==
  /\ FreeSlot = 1
  /\ \E body \in Payloads, asserted \in Payloads, fails \in BOOLEAN :
       RawUpload(1, UploadOf(SK_A, N_txt, body, asserted, fails))

Download ==
  /\ FreeSlot = 1
  /\ \E name \in {N_txt, N_bin} : RawDownload(1, DownloadOf(SK_A, name))

Init == InitServer /\ InitClient /\ cli.secret = SK_A /\ faults = 0

Next ==
  \/ Upload
  \/ Download
  \/ FileWriter_new(1)
  \/ write_body_chunk(1)
  \/ write_body_error(1)
  \/ write_body_end(1)
  \/ drop_temp_file(1)
  \/ finalize_dirs(1)
  \/ finalize_signature(1)
  \/ finalize_rename(1)
  \/ download_signature(1)
  \/ download_body(1)
  \/ Release(1)

Spec == Init /\ [][Next]_vars

(***************************************************************************)
(* SpecRace: the server handles up to MaxSlots requests of identity A for  *)
(* one resource name at the same time: uploads of either payload, each     *)
(* with its own payload signature, and downloads.  No I/O call fails.      *)
(***************************************************************************)
RaceUpload(r) ==
  /\ r = FreeSlot
  /\ \E body \in Payloads :
       RawUpload(r, UploadOf(SK_A, N_txt, body, body, FALSE))

RaceDownload(r) ==
  /\ r = FreeSlot
  /\ RawDownload(r, DownloadOf(SK_A, N_txt))

InitRace == InitServer /\ InitClient /\ cli.secret = SK_A /\ faults = MaxFaults

NextRace ==
  \E r \in Slots :
    \/ RaceUpload(r)
    \/ RaceDownload(r)
    \/ FileWriter_new(r)
    \/ write_body_chunk(r)
    \/ write_body_end(r)
    \/ finalize_dirs(r)
    \/ finalize_signature(r)
    \/ finalize_rename(r)
    \/ download_signature(r)
    \/ download_body(r)
    \/ Release(r)

SpecRace == InitRace /\ [][NextRace]_vars

(***************************************************************************)
(* SpecPaths: the server handles one request after the other, for resource *)
(* names with and without traversal segments.  Identity B stores a.t,      *)
(* identity A uploads and downloads under every name.  No I/O call fails.  *)
(***************************************************************************)
PathNames == {N_txt, N_other(PK_B), N_outside, N_absolute(PK_B), N_root}

PathsUpload ==
  /\ FreeSlot = 1
  /\ \/ \E name \in PathNames :
          RawUpload(1, UploadOf(SK_A, name, <<1>>, <<1>>, FALSE))
     \/ RawUpload(1, UploadOf(SK_B, N_txt, <<2>>, <<2>>, FALSE))

PathsDownload ==
  /\ FreeSlot = 1
  /\ \/ \E name \in PathNames : RawDownload(1, DownloadOf(SK_A, name))
     \/ RawDownload(1, DownloadOf(SK_B, N_txt))

InitPaths == InitServer /\ InitClient /\ cli.secret = SK_A /\ faults = MaxFaults

NextPaths ==
  \/ PathsUpload
  \/ PathsDownload
  \/ FileWriter_new(1)
  \/ write_body_chunk(1)
  \/ write_body_end(1)
  \/ finalize_dirs(1)
  \/ finalize_signature(1)
  \/ finalize_rename(1)
  \/ download_signature(1)
  \/ download_body(1)
  \/ Release(1)

SpecPaths == InitPaths /\ [][NextPaths]_vars

(***************************************************************************)
(* C1.  Round trip: a pull that follows a successful push of the same      *)
(* resource name by the same identity ends well and leaves in the download *)
(* directory a file whose bytes are the pushed content.                    *)
(***************************************************************************)
PullAfterPush ==
  /\ cli.op = "pull" /\ cli.pc = "done"
  /\ cli.pushed.ok
  /\ cli.pushed.filename = cli.filename
  /\ cli.pushed.pubkey = verifying_key(cli.secret)

C1_RoundTrip ==
  PullAfterPush =>
    /\ cli.result = "Ok"
    /\ join(download_dir, cli.filename) \in DOMAIN dest
    /\ dest[join(download_dir, cli.filename)] = cli.pushed.content


(***************************************************************************)
(* SpecWire: one client pushes and pulls a.t over a server whose I/O may   *)
(* fail and over a network that may alter the reply of a download on its   *)
(* way to the client.                                                      *)
(***************************************************************************)
\* the reply of download r, as HttpClient::pull receives it, has another
\* file-signature header or another body than the server sent
TamperReply(r) ==
  /\ req[r].kind = "download" /\ req[r].pc = "done" /\ req[r].status = OK
  /\ cli.pc = "wait" /\ cli.rid = r
  /\ \/ \E secret \in {SK_A, SK_B}, content \in Payloads :
          req' = [req EXCEPT ![r].header =
                    Signature_to_vec(sign_digest(secret, calc_digest(content)))]
     \/ \E content \in Payloads :
          req' = [req EXCEPT ![r].sent = [t |-> "bytes", b |-> content]]
  /\ UNCHANGED <<now, dirs, files, faults, cli, dest>>

WirePath == Str(<<"d", "/", "a", ".", "t">>)

InitWire == InitServer /\ InitClient /\ cli.secret = SK_A /\ faults = 0

NextWire ==
  \/ \E content \in Payloads : Push(WirePath, content)
  \/ PushReturn
  \/ Pull(N_txt)
  \/ PullReturn
  \/ TamperReply(1)
  \/ FileWriter_new(1)
  \/ write_body_chunk(1)
  \/ write_body_end(1)
  \/ drop_temp_file(1)
  \/ finalize_dirs(1)
  \/ finalize_signature(1)
  \/ finalize_rename(1)
  \/ download_signature(1)
  \/ download_body(1)

SpecWire == InitWire /\ [][NextWire]_vars

(***************************************************************************)
(* SpecEncode: two requests arrive, each signed by its sender over the     *)
(* Borsh encoding of its triple.  The names are short strings of the bytes *)
(* that also occur in a length prefix, in an identity and in a timestamp.  *)
(***************************************************************************)
EncodeBytes == {0, PK_A[1], StartTime % 256}
EncodeNames == SeqsUpTo(EncodeBytes, 2)
EncodeTimes == {StartTime, StartTime + 1, StartTime + 256}

EncodeArrive ==
  /\ FreeSlot \in {1, 2}
  /\ \E name \in EncodeNames, secret \in {SK_A, SK_B}, time \in EncodeTimes :
       RawDownload(FreeSlot,
                   Headers(sign(with_time(name, verifying_key(secret), time),
                                secret),
                           <<>>, <<>>, FALSE))

InitEncode == InitServer /\ InitClient /\ cli.secret = SK_A /\ faults = MaxFaults

NextEncode == EncodeArrive

SpecEncode == InitEncode /\ [][NextEncode]_vars

(***************************************************************************)
(* SpecScratch: uploads of a.t by identity A run concurrently with uploads *)
(* by identity B under a name that leads from B's directory to a           *)
(* temporary file of the scratch directory.  I/O does not fail.            *)
(***************************************************************************)
\* the name that leads from an identity's directory to temporary file number
N_scratch(number) ==
  LET filename == temp_filename(number) IN
  Str(<<".", ".", "/", ".", ".", "/">>) \o filename[1] \o <<SLASH>> \o filename[2]

ScratchSlots == {1, 2}

ScratchUpload(r) ==
  /\ r = FreeSlot
  /\ \/ RawUpload(r, UploadOf(SK_A, N_txt, <<1>>, <<1>>, FALSE))
     \/ RawUpload(r, UploadOf(SK_B, N_scratch(0), <<2>>, <<2>>, FALSE))

InitScratch == InitServer /\ InitClient /\ cli.secret = SK_A /\ faults = MaxFaults

NextScratch ==
  \E r \in ScratchSlots :
    \/ ScratchUpload(r)
    \/ FileWriter_new(r)
    \/ write_body_chunk(r)
    \/ write_body_end(r)
    \/ finalize_dirs(r)
    \/ finalize_signature(r)
    \/ finalize_rename(r)
    \/ Release(r)

SpecScratch == InitScratch /\ [][NextScratch]_vars

(***************************************************************************)
(* SpecReject: uploads of a.t under identity A arrive one at a time: good  *)
(* ones, and ones with a payload signature of other bytes, a breaking      *)
(* stream, a stale timestamp or a request signature by another key; in     *)
(* between the client of identity A pulls a.t.  I/O does not fail.         *)
(***************************************************************************)
RejectHeaders ==
  {Presented(with_time(N_txt, PK_A, time), with_time(N_txt, PK_A, time), secret) :
     time \in {StartTime, StartTime - MAX_CLIENT_TIME_DIFF - 1},
     secret \in {SK_A, SK_B}}

RejectUpload ==
  /\ FreeSlot = 1
  /\ \/ \E body \in Payloads, asserted \in Payloads, fails \in BOOLEAN :
          RawUpload(1, UploadOf(SK_A, N_txt, body, asserted, fails))
     \/ \E h \in RejectHeaders : RawUpload(1, h)

RejectPull ==
  /\ FreeSlot = 1
  /\ Pull(N_txt)

InitReject == InitServer /\ InitClient /\ cli.secret = SK_A /\ faults = MaxFaults

NextReject ==
  \/ RejectUpload
  \/ RejectPull
  \/ PullReturn
  \/ FileWriter_new(1)
  \/ write_body_chunk(1)
  \/ write_body_error(1)
  \/ write_body_end(1)
  \/ drop_temp_file(1)
  \/ finalize_dirs(1)
  \/ finalize_signature(1)
  \/ finalize_rename(1)
  \/ download_signature(1)
  \/ download_body(1)
  \/ Release(1)

SpecReject == InitReject /\ [][NextReject]_vars

(***************************************************************************)
(* Helpers of the claims.                                                  *)
(***************************************************************************)
\* the paths get_file_paths gives request q, and the locations they name
PathsOf(q) == get_file_paths(storage_path, q.pubkey, q.filename)
FinalLocs(q) ==
  {Resolve(dirs, PathsOf(q).file_path).at,
   Resolve(dirs, PathsOf(q).signature_path).at}

\* the files request r has created and that still exist
FilesBy(r) == {p \in DOMAIN files : files[p].by = r}

\* request q was turned down with an error reply
Rejected(q) ==
  /\ q.pc = "done"
  /\ q.status = INTERNAL_SERVER_ERROR
  /\ q.error # ""

\* request r has not touched the storage tree or the scratch directory
Untouched(r) ==
  /\ req[r].temp_file = <<>>
  /\ req[r].touched = {}
  /\ FilesBy(r) = {}

\* the secret key of an identity of the model
SecretOf(pubkey) == IF pubkey = PK_A THEN SK_A ELSE SK_B

\* a path with its ".." segments resolved against the path itself
RECURSIVE Normalized(_, _)
Normalized(cur, rest) ==
  IF rest = <<>> THEN cur
  ELSE IF Head(rest) = DOTDOT
       THEN Normalized(IF cur = <<>> THEN cur ELSE parent(cur), Tail(rest))
       ELSE Normalized(cur \o <<Head(rest)>>, Tail(rest))

Normalize(path) == Normalized(<<>>, path)

(***************************************************************************)
(* C2.  Freshness: a request whose timestamp is more than                  *)
(* MAX_CLIENT_TIME_DIFF seconds away from the server's time when it is     *)
(* checked, in the past or in the future, is rejected with an error reply  *)
(* whatever its signature, and the upload or download has touched nothing. *)
(***************************************************************************)
Stale(q) == abs_diff(q.unix_time, q.time) > MAX_CLIENT_TIME_DIFF

C2_Freshness ==
  \A r \in Slots :
    (req[r].kind # "none" /\ Stale(req[r])) =>
      Rejected(req[r]) /\ Untouched(r)

\* an upload stamped too far in the future, with a valid signature over
\* exactly the fields it presents, has been rejected
C2_Witness ==
  \E r \in Slots :
    /\ req[r].kind = "upload"
    /\ req[r].time > req[r].unix_time + MAX_CLIENT_TIME_DIFF
    /\ req[r].signed = with_time(req[r].filename, req[r].pubkey, req[r].time)
    /\ Signature_from_slice(req[r].request_signature).signer = req[r].pubkey
    /\ Rejected(req[r])

(***************************************************************************)
(* C3.  Field binding: a request that presents a signature made over a     *)
(* (resource name, identity, time) triple other than the one it presents   *)
(* is rejected with an error reply, and has touched nothing.               *)
(***************************************************************************)
Shown(q) == with_time(q.filename, q.pubkey, q.time)

C3_FieldBinding ==
  \A r \in Slots :
    (req[r].kind # "none" /\ req[r].signed # Shown(req[r])) =>
      Rejected(req[r]) /\ Untouched(r)

\* a fresh download presenting the owner's signature made for another
\* resource name has been rejected
C3_Witness ==
  \E r \in Slots :
    /\ req[r].kind = "download"
    /\ ~Stale(req[r])
    /\ req[r].signed.filename # req[r].filename
    /\ req[r].signed.pubkey = req[r].pubkey
    /\ req[r].signed.time = req[r].time
    /\ Signature_from_slice(req[r].request_signature).signer = req[r].pubkey
    /\ Rejected(req[r])

(***************************************************************************)
(* C4.  Integrity rejection: an upload whose stream ended well but whose   *)
(* asserted payload signature is not the signature of the streamed bytes   *)
(* under the request's identity gets an error reply, and no file of that   *)
(* upload is at its payload path or its signature path.                    *)
(***************************************************************************)
StreamedAll(q) ==
  /\ q.kind = "upload" /\ q.pc = "done"
  /\ q.body = <<>> /\ ~q.fails /\ q.err = ""

Mismatch(q) ==
  q.file_signature #
    Signature_to_vec(sign_digest(SecretOf(q.pubkey), q.hasher))

C4_IntegrityRejection ==
  \A r \in Slots :
    (StreamedAll(req[r]) /\ Mismatch(req[r])) =>
      /\ Rejected(req[r])
      /\ FilesBy(r) \cap FinalLocs(req[r]) = {}

\* an upload of a payload under the signature of another payload has been
\* rejected after all its bytes were received
C4_Witness ==
  \E r \in Slots :
    /\ StreamedAll(req[r]) /\ Mismatch(req[r])
    /\ req[r].hasher # <<>>
    /\ req[r].error = "signature error"

(***************************************************************************)
(* C5.  Interrupted upload, as claimed: when the body stream yields an     *)
(* error or a chunk cannot be appended, the upload gets an error reply,    *)
(* no file of it is at its final paths and its temporary file is gone.     *)
(***************************************************************************)
Interrupted(q) ==
  /\ q.kind = "upload" /\ q.pc = "done"
  /\ q.err # ""

Escapes(q) ==
  ~starts_with(Normalize(join(storage_path \o <<bs58_encode(q.pubkey)>>,
                              q.filename)),
               storage_path)

C6_Sandbox ==
  \A r \in Slots :
    (req[r].kind # "none" /\ VerifyingKey_try_from_ok(req[r].pubkey)
       /\ Escapes(req[r])) =>
      /\ ~PathsOf(req[r]).ok
      /\ req[r].touched = {}

(***************************************************************************)
(* C7.  Namespace isolation: every location a request reads or writes in   *)
(* the storage tree lies inside the directory of the request's identity.   *)
(***************************************************************************)
C7_Isolation ==
  \A r \in Slots :
    \A p \in req[r].touched :
      starts_with(p, storage_path \o <<bs58_encode(req[r].pubkey)>>)

(***************************************************************************)
(* C8.  Missing artifact: a download whose payload file or signature file  *)
(* is absent does not get an OK reply: it gets an error reply.             *)
(***************************************************************************)
MissingArtifact(q) ==
  \/ ~Readable(dirs, files, PathsOf(q).file_path)
  \/ ~Readable(dirs, files, PathsOf(q).signature_path)

C8_NotFound ==
  \A r \in Slots :
    (req[r].kind = "download" /\ req[r].pc \in {"body", "done"}
       /\ PathsOf(req[r]).ok /\ MissingArtifact(req[r])) =>
      /\ req[r].status # OK
      /\ req[r].pc = "done" => Rejected(req[r])

(***************************************************************************)
(* C9.  Concurrent writers: once no upload is in progress, the payload     *)
(* file at the final path has a signature file next to it that verifies    *)
(* against it under the identity.                                          *)
(***************************************************************************)
StoredPairVerifies(pubkey, name) ==
  LET paths == get_file_paths(storage_path, pubkey, name) IN
  paths.file_path \in DOMAIN files =>
    /\ paths.signature_path \in DOMAIN files
    /\ Signature_from_slice_ok(files[paths.signature_path].data)
    /\ Signature_to_vec(sign_digest(SecretOf(pubkey),
                                    calc_digest(files[paths.file_path].data)))
         = files[paths.signature_path].data

C9_NoMix ==
  (\A r \in Slots : req[r].kind = "upload" => req[r].pc = "done") =>
    StoredPairVerifies(PK_A, N_txt)

(***************************************************************************)
(* C10.  Download racing a commit: the signature header and the body a     *)
(* download returns belong to the same version: the header is the          *)
(* signature of the body.                                                  *)
(***************************************************************************)
C10_SameVersion ==
  \A r \in Slots :
    (req[r].kind = "download" /\ req[r].pc = "done"
       /\ req[r].sent.t = "bytes") =>
      req[r].header =
        Signature_to_vec(sign_digest(SecretOf(req[r].pubkey),
                                     calc_digest(req[r].sent.b)))


(***************************************************************************)
(* C11.  Signature before payload: in every state, for every identity and  *)
(* resource name, when a file is present at the resource's payload path a  *)
(* file is present at its signature path.                                  *)
(***************************************************************************)
ResourceNames == {N_txt, N_bin, N_sig}

C11_SignatureBeforePayload ==
  \A pubkey \in {PK_A, PK_B}, name \in ResourceNames :
    LET paths == get_file_paths(storage_path, pubkey, name) IN
    Readable(dirs, files, paths.file_path) =>
      Readable(dirs, files, paths.signature_path)

\* an upload is about to rename its temporary file: its signature file is
\* written and the payload path is still empty
C11_Witness ==
  \E r \in Slots :
    /\ req[r].kind = "upload" /\ req[r].pc = "rename"
    /\ Resolve(dirs, PathsOf(req[r]).signature_path).at \in FilesBy(r)
    /\ ~Readable(dirs, files, PathsOf(req[r]).file_path)


(***************************************************************************)
(* C12.  Unconditional cleanup: once an upload pipeline has ended, on      *)
(* whatever exit path, no temporary file of it is in the scratch           *)
(* directory.                                                              *)
(***************************************************************************)
TempFilesBy(r) == {p \in FilesBy(r) : starts_with(p, TEMP_DIR)}

C12_UnconditionalCleanup ==
  \A r \in Slots :
    (req[r].kind = "upload" /\ req[r].pc = "done") => TempFilesBy(r) = {}

(***************************************************************************)
(* C13.  Atomic commit: an upload that ends with an error leaves no file   *)
(* of its own at its payload path or at its signature path.                *)
(***************************************************************************)
C13_AtomicCommit ==
  \A r \in Slots :
    (req[r].kind = "upload" /\ req[r].pc = "done" /\ req[r].status # OK) =>
      FilesBy(r) \cap FinalLocs(req[r]) = {}


(***************************************************************************)
(* C14.  Client integrity check: when pull ends and the signature the      *)
(* client derives with its own key over the received bytes differs from    *)
(* the signature in the reply, pull returns an error and the destination   *)
(* directory is unchanged.                                                 *)
(***************************************************************************)
SignatureDiffers ==
  req[cli.rid].header #
    Signature_to_vec(sign_digest(cli.secret,
                                 calc_digest(req[cli.rid].sent.b)))

PullEnds == cli.op = "pull" /\ cli.pc = "wait" /\ cli'.pc = "done"

C14_ClientIntegrity ==
  [][(PullEnds /\ SignatureDiffers) =>
       (cli'.result # "Ok" /\ dest' = dest)]_vars

\* a pull has received bytes under a signature of other bytes, has failed
\* on the comparison and has delivered nothing
C14_Witness ==
  /\ cli.op = "pull" /\ cli.pc = "done"
  /\ cli.result = "Signature mismatch"
  /\ cli.scratch # <<>>
  /\ dest = NoFiles

(***************************************************************************)
(* C15.  Push outcome reporting: a push that the server answered with a    *)
(* status other than OK ends as a failure for its caller.                  *)
(***************************************************************************)
C15_PushOutcome ==
  (cli.op = "push" /\ cli.pc = "done" /\ ~cli.pushed.ok) =>
    cli.result # "Ok"


(***************************************************************************)
(* C16.  Authenticate before I/O: an upload whose headers are malformed,   *)
(* whose timestamp is stale or whose request signature is invalid is       *)
(* rejected with no chunk of its body fed to the digest or written, no     *)
(* temporary file created and no file of it anywhere.                      *)
(***************************************************************************)
AuthFails(q) ==
  IF UploadParseError(q) # "Ok" THEN TRUE
  ELSE check_signature(Shown(q), Signature_from_slice(q.request_signature),
                       q.unix_time) # "Ok"

C16_AuthBeforeIO ==
  \A r \in Slots :
    (req[r].kind = "upload" /\ AuthFails(req[r])) =>
      /\ Rejected(req[r])
      /\ req[r].hasher = Hasher_default
      /\ req[r].temp_filename = <<>>
      /\ Untouched(r)

\* a fresh, well-formed upload signed with the key of another identity has
\* been rejected with its body unread
C16_Witness ==
  \E r \in Slots :
    /\ req[r].kind = "upload"
    /\ UploadParseError(req[r]) = "Ok"
    /\ ~Stale(req[r])
    /\ req[r].signed = Shown(req[r])
    /\ Signature_from_slice(req[r].request_signature).signer # req[r].pubkey
    /\ req[r].body # <<>>
    /\ Rejected(req[r])

(***************************************************************************)
(* C17.  Sandbox violation before side effects: a request whose resource   *)
(* name get_file_paths refuses has no file system side effect: it creates  *)
(* no temporary file, feeds and writes no body bytes and leaves no file.   *)
(***************************************************************************)
C17_SandboxBeforeEffects ==
  \A r \in Slots :
    (req[r].kind # "none" /\ VerifyingKey_try_from_ok(req[r].pubkey)
       /\ ~PathsOf(req[r]).ok) =>
      /\ req[r].hasher = Hasher_default
      /\ req[r].temp_filename = <<>>
      /\ Untouched(r)

(***************************************************************************)
(* C18.  Original error preserved: an upload that failed while receiving   *)
(* its body answers with the receive or write error, also when removing    *)
(* the temporary file failed.                                              *)
(***************************************************************************)
C18_OriginalError ==
  \A r \in Slots :
    Interrupted(req[r]) => req[r].error = req[r].err


(***************************************************************************)
(* C19.  Pipeline order: an upload moves from Receiving to Committing only *)
(* through a successful verification, from Committing to Done, and from    *)
(* any of them to Failed, which it never leaves and in which it commits    *)
(* nothing and answers with an error.  While it commits, its stream has    *)
(* ended without error, its asserted signature is the signature of the     *)
(* digest under its identity, and the digest is that of exactly the bytes  *)
(* of its temporary file; the payload it publishes is the one its          *)
(* signature verifies against.                                             *)
(***************************************************************************)
Receiving(q) == q.kind = "upload" /\ q.pc \in {"new", "recv"}
Committing(q) == q.kind = "upload" /\ q.pc \in {"sync", "sig", "rename"}
Done(q) == q.kind = "upload" /\ q.pc = "done" /\ q.status = OK
Failed(q) ==
  /\ q.kind = "upload"
  /\ q.pc = "drop" \/ (q.pc = "done" /\ q.status # OK)

Verified(q) ==
  q.file_signature =
    Signature_to_vec(sign_digest(SecretOf(q.pubkey), q.hasher))

CommitsVerified(r) ==
  Committing(req[r]) =>
    /\ req[r].body = <<>> /\ ~req[r].fails /\ req[r].err = ""
    /\ Verified(req[r])
    /\ TempLoc(req[r].temp_filename[1]) \in DOMAIN files
    /\ calc_digest(files[TempLoc(req[r].temp_filename[1])].data)
         = req[r].hasher

CommitOrder ==
  <<"sync", "sig", "rename">>

OrderedStep(r) ==
  LET q == req[r]
      n == req'[r]
  IN (q.kind = "upload" /\ n # q /\ n.kind # "none") =>
       /\ n.kind = "upload"
       /\ Receiving(q) =>
            \/ Receiving(n)
            \/ n.pc = "sync" /\ q.body = <<>> /\ Verified(q)
            \/ Failed(n)
       /\ Committing(q) =>
            \/ \E i \in 1..2 : q.pc = CommitOrder[i] /\ n.pc = CommitOrder[i + 1]
            \/ q.pc = "rename" /\ Done(n)
                 /\ Verified(q)
                 /\ Readable(dirs', files', PathsOf(q).file_path)
                 /\ calc_digest(files'[Resolve(dirs', PathsOf(q).file_path).at].data)
                      = q.hasher
            \/ Failed(n)
       /\ Failed(q) =>
            /\ Failed(n)
            /\ n.touched = q.touched
            /\ n.pc = "done" => Rejected(n)
       /\ Done(q) => FALSE

C20_Lockstep ==
  \A r \in Slots :
    (req[r].kind = "upload" /\ req[r].pc \in {"recv", "drop"}) =>
      req[r].hasher =
        calc_digest(files[TempLoc(req[r].temp_file[1])].data)


(***************************************************************************)
(* C21.  Canonical encoding: two requests carry the same encoding of their *)
(* triple exactly when their triples are equal.                            *)
(***************************************************************************)
\* the bytes the sender of q signed: the encoding of its triple
Encoded(q) == Signature_from_slice(q.request_signature).msg

C21_CanonicalEncoding ==
  \A r1 \in Slots, r2 \in Slots :
    (req[r1].kind # "none" /\ req[r2].kind # "none") =>
      (Encoded(req[r1]) = Encoded(req[r2]) <=> Shown(req[r1]) = Shown(req[r2]))

\* two requests of one identity and one time, whose names differ only in
\* length and consist of the byte of the identity, have different encodings
C21_Witness ==
  /\ req[1].kind # "none" /\ req[2].kind # "none"
  /\ req[1].pubkey = req[2].pubkey /\ req[1].time = req[2].time
  /\ req[1].filename = <<PK_A[1]>>
  /\ req[2].filename = <<PK_A[1], PK_A[1]>>
  /\ Encoded(req[1]) # Encoded(req[2])


(***************************************************************************)
(* C22.  Temporary-file exclusivity: the temporary file path a live upload *)
(* pipeline holds names a file that this pipeline created, and no two live *)
(* pipelines hold the same path; so a pipeline appends to, removes and     *)
(* renames only a temporary file of its own.                               *)
(***************************************************************************)
\* the pipeline of r holds a temporary file path: from FileWriter::new to
\* the removal or the rename of the file
Holding(q) ==
  /\ q.kind = "upload"
  /\ q.pc \in {"recv", "drop", "sync", "sig", "rename"}

HeldLoc(q) ==
  TempLoc(IF q.temp_file # <<>> THEN q.temp_file[1] ELSE q.temp_filename[1])

C22_TempExclusive ==
  /\ \A r \in Slots :
       Holding(req[r]) => HeldLoc(req[r]) \in FilesBy(r)
  /\ \A r1 \in Slots, r2 \in Slots :
       (r1 # r2 /\ Holding(req[r1]) /\ Holding(req[r2])) =>
         HeldLoc(req[r1]) # HeldLoc(req[r2])


(***************************************************************************)
(* C23.  Path disjointness within a namespace: for the identity and the    *)
(* resource name of a request and every resource name of that identity,    *)
(* distinct names have distinct signature paths and no signature path is a *)
(* payload path; an upload that has succeeded finds its own signature in   *)
(* its signature file.                                                     *)
(***************************************************************************)
C23_PathDisjoint ==
  \A r \in Slots :
    (req[r].kind # "none" /\ VerifyingKey_try_from_ok(req[r].pubkey)
       /\ PathsOf(req[r]).ok) =>
      /\ \A name \in ResourceNames :
           LET mine == PathsOf(req[r])
               other == get_file_paths(storage_path, req[r].pubkey, name)
           IN /\ name # req[r].filename =>
                   other.signature_path # mine.signature_path
              /\ other.file_path # mine.signature_path
              /\ mine.file_path # other.signature_path
      /\ Done(req[r]) =>
           files[Resolve(dirs, PathsOf(req[r]).signature_path).at].data
             = req[r].file_signature


(***************************************************************************)
(* C24.  Rejected upload leaves the old artifact intact: no step taken     *)
(* while an upload is handled that fails authentication, whose payload     *)
(* signature is not that of its stream, or whose stream breaks, changes a  *)
(* file of the storage tree; and a pull that ends while the pair is stored *)
(* succeeds and delivers the stored payload.                               *)
(***************************************************************************)
RECURSIVE Flatten(_)
Flatten(chunks) ==
  IF chunks = <<>> THEN <<>> ELSE Head(chunks) \o Flatten(Tail(chunks))

\* the upload q is one that has to be rejected
Doomed(q) ==
  \/ AuthFails(q)
  \/ q.fails
  \/ q.file_signature #
       Signature_to_vec(sign_digest(SecretOf(q.pubkey),
                                    calc_digest(q.hasher \o Flatten(q.body))))

\* the contents of the files of the storage tree
Stored(fl) ==
  [p \in {l \in DOMAIN fl : starts_with(l, storage_path)} |-> fl[p].data]

StoredPayload == PathsOf(with_time(N_txt, PK_A, 0)).file_path

C24_OldArtifactIntact ==
  /\ [][\A r \in Slots :
          (req[r].kind = "upload" /\ Doomed(req[r])) =>
            Stored(files') = Stored(files)]_vars
  /\ [][(PullEnds /\ cli.filename = N_txt /\ StoredPayload \in DOMAIN files) =>
          /\ cli'.result = "Ok"
          /\ dest'[join(download_dir, N_txt)] = files[StoredPayload].data]_vars

\* an upload with the signature of other bytes has been rejected while an
\* earlier version is stored, whose signature verifies against its payload
C24_Witness ==
  \E r \in Slots :
    /\ req[r].kind = "upload" /\ ~AuthFails(req[r]) /\ ~req[r].fails
    /\ Doomed(req[r])
    /\ Rejected(req[r])
    /\ StoredPayload \in DOMAIN files
    /\ files[StoredPayload].by # r
    /\ files[StoredPayload].data # req[r].hasher
    /\ StoredPairVerifies(PK_A, N_txt)

=============================================================================
